---------------------------- MODULE Spec2Model ----------------------------
(***************************************************************************)
(* agora-wot: the Proxy of src/agora_wot/proxy.py.                          *)
(*                                                                         *)
(*   Spec         Proxy.describe_resource, one request at a time           *)
(*   SpecCompose  Proxy.compose_endpoints over generated ecosystems        *)
(*   SpecSeeds    Proxy.__init__ / instantiate_seed / seeds / clear_seeds  *)
(*   SpecMap      apply_mappings / path_data over generated JSON trees     *)
(***************************************************************************)
EXTENDS Integers, Sequences, FiniteSets, TLC

VARIABLES
    eco,        \* the TED handed to Proxy.__init__: tds, base, network, sources
    composed,   \* SpecCompose: list(compose_endpoints(c_td)) of the last call
    c_td,       \* SpecCompose: the resource of the last compose_endpoints call
    d_pc,       \* describe_resource: the position of the request in the method
    d_tid,      \* describe_resource: argument tid
    d_b64,      \* describe_resource: argument b64 (after the %3D replacement)
    d_kw,       \* describe_resource: **kwargs, the query parameters
    d_args,     \* describe_resource: resource_args
    d_uri,      \* describe_resource: r_uri
    g,          \* describe_resource: the graph g
    ttl,        \* describe_resource: ttl
    d_props,    \* describe_resource: resource_props
    d_queue,    \* describe_resource: the sorted endpoints still to be invoked
    d_calls,    \* the endpoint invocations of this request, in order, each
                \* with what the upstream answered
    d_loads,    \* the same-as sources fetched by this request, in order
    d_err,      \* the step whose exception the except clause caught, or None
    seeds,      \* Proxy.__seeds: the set of (URI, type) pairs
    type_seeds, \* the types the fountain holds persisted seeds for
    s_hist,     \* the instantiate_seed / clear_seeds calls made so far, in order
    s_ret,      \* what the last instantiate_seed call returned: <<uri>> or <<>>
    m_in,       \* SpecMap: the JSON tree first handed to apply_mappings
    m_maps,     \* SpecMap: the mappings of the endpoint
    m_heap,     \* SpecMap: the list and dict objects of the tree
    m_data,     \* SpecMap: data, the tree apply_mappings returned last
    m_out,      \* SpecMap: the value of data
    m_runs,     \* SpecMap: how often apply_mappings was run on the tree
    parameters, \* SpecGateway: self.proxy.parameters, the required parameters
    scholars,   \* SpecGateway: self.scholars, scholar id -> <<instance>>
    created,    \* SpecGateway: the Scholar instances constructed, in order
    r_pc,       \* SpecGateway: where each call stands
    r_op,       \* SpecGateway: "query" or "fragment"
    r_scholar,  \* SpecGateway: the scholar argument of each call
    r_kwargs,   \* SpecGateway: the kwargs of each call
    r_id,       \* SpecGateway: scholar_id of each call
    r_new,      \* SpecGateway: the instance each call constructed
    r_coll      \* SpecGateway: collector, what _scholar returned to each call

ecoVars  == <<eco>>
compVars == <<composed, c_td>>
descVars == <<d_pc, d_tid, d_b64, d_kw, d_args, d_uri, g, ttl, d_props, d_queue,
              d_calls, d_loads, d_err>>
seedVars == <<seeds, type_seeds, s_hist, s_ret>>
mapVars  == <<m_in, m_maps, m_heap, m_data, m_out, m_runs>>
gwVars   == <<parameters, scholars, created, r_pc, r_op, r_scholar, r_kwargs, r_id, r_new,
              r_coll>>
vars     == <<eco, composed, c_td, d_pc, d_tid, d_b64, d_kw, d_args, d_uri, g, ttl,
              d_props, d_queue, d_calls, d_loads, d_err, seeds, type_seeds, s_hist,
              s_ret, m_in, m_maps, m_heap, m_data, m_out, m_runs, parameters, scholars,
              created, r_pc, r_op, r_scholar, r_kwargs, r_id, r_new, r_coll>>

None == "None"

(***************************************************************************)
(* The ecosystem: resource ids, their base endpoints and the network.      *)
(***************************************************************************)
\* The Thing Descriptions of the ecosystem (ted.ecosystem.tds), by id.
TDs == {"R1", "R2", "R3"}

\* A fixed enumeration order of the ids (the iteration order of the network's
\* predecessors is the graph library's; it is deterministic for one process).
TDOrder == <<"R1", "R2", "R3">>

\* The dependency edges a->b a network may hold: b is reached through a.
\* Only forward edges of TDOrder, so every network drawn from them is acyclic.
Edges == {<<"R1", "R2">>, <<"R1", "R3">>, <<"R2", "R3">>}

MaxBase == 2

\* One declared endpoint of a resource: href (FALSE: href is None) and order.
BaseDecl(orders) == [href : BOOLEAN, order : orders]

\* The base endpoint lists of at most n endpoints.
BaseLists(n, orders) == UNION {[1..k -> BaseDecl(orders)] : k \in 0..n}

\* The i-th base endpoint of resource r, as the object compose_endpoints yields.
BaseEndpoint(r, i) ==
    [path |-> <<(<<r, i>>)>>, href |-> eco.base[r][i].href, order |-> eco.base[r][i].order]

\* Endpoint.__add__: the composed endpoint calls pred_e and continues with
\* base_e; it carries the declared priority of base_e.
EndpointAdd(pred_e, base_e) ==
    [path |-> pred_e.path \o base_e.path, href |-> pred_e.href, order |-> base_e.order]

\* A plausible slip: walking the network forwards instead of backwards.
Successors(id) == SelectSeq(TDOrder, LAMBDA p : <<id, p>> \in eco.net)

\* self.__network.predecessors(id)
Predecessors(id) == SelectSeq(TDOrder, LAMBDA p : <<p, id>> \in eco.net)

RECURSIVE ComposeEndpoints(_), ComposeBase(_, _), ComposePreds(_, _, _)

\* for pred_e in self.compose_endpoints(pred_thing): yield pred_e + base_e
AddAll(es, base_e) == [j \in 1..Len(es) |-> EndpointAdd(es[j], base_e)]

\* for pred in predecessors(id): ... (the open-endpoint branch)
ComposePreds(r, i, ps) ==
    IF ps = <<>> THEN <<>>
    ELSE AddAll(ComposeEndpoints(Head(ps)), BaseEndpoint(r, i))
             \o ComposePreds(r, i, Tail(ps))

\* for base_e in resource.base: from the i-th on
ComposeBase(r, i) ==
    IF i > Len(eco.base[r]) THEN <<>>
    ELSE (IF eco.base[r][i].href
            THEN <<BaseEndpoint(r, i)>>
            ELSE ComposePreds(r, i, Predecessors(r)))
         \o ComposeBase(r, i + 1)

\* Proxy.compose_endpoints(resource), the generator's items in order.
ComposeEndpoints(r) == ComposeBase(r, 1)

\* The seed registry is not exercised: no seed, no call.
SeedsIdle ==
    /\ seeds = {}
    /\ type_seeds = {}
    /\ s_hist = <<>>
    /\ s_ret = <<>>

\* No compose_endpoints call has been made.
ComposeIdle ==
    /\ composed = <<>>
    /\ c_td = None

\* No describe_resource request is in progress.
DescribeIdle ==
    /\ d_pc = "idle"
    /\ d_tid = None
    /\ d_b64 = None
    /\ d_kw = None
    /\ d_args = <<>>
    /\ d_uri = None
    /\ g = {}
    /\ ttl = 0
    /\ d_props = {}
    /\ d_queue = <<>>
    /\ d_calls = <<>>
    /\ d_loads = <<>>
    /\ d_err = None

(***************************************************************************)
(* SpecGateway: concurrent Gateway.query / Gateway.fragment calls and the  *)
(* scholars dict of _scholar. Each call runs in a thread of its own; the   *)
(* threads share self.scholars and may be switched between any two         *)
(* statements. Strings that are concatenated are sequences of characters.  *)
(***************************************************************************)
MaxCalls == 2

Calls == 1..MaxCalls

\* The names required parameters are drawn from: "a" and "ab".
ParamA == <<"a">>
ParamAB == <<"a", "b">>

\* self.proxy.parameters: the required parameters of the ecosystem
ParameterSets == {{}, {ParamA}, {ParamA, ParamAB}}

\* sorted(required_params)
SortedParams(ps) == SelectSeq(<<ParamA, ParamAB>>, LAMBDA k : k \in ps)

\* The values of a keyword argument.
KwargValues == {<<>>, <<"b">>, <<"1">>}

\* **kwargs of a call: any of the required parameters, each with a value
KwargSets(ps) == UNION {[d -> KwargValues] : d \in SUBSET ps}

\* str(kwargs.get(k, ''))
StrGet(kwargs, k) == IF k \in DOMAIN kwargs THEN kwargs[k] ELSE <<>>

RECURSIVE Updates(_, _)
\* for k in sorted(required_params): m.update(k + str(kwargs.get(k, ''))):
\* what the digest is taken of
Updates(ks, kwargs) ==
    IF ks = <<>> THEN <<>>
    ELSE Head(ks) \o StrGet(kwargs, Head(ks)) \o Updates(Tail(ks), kwargs)

\* m.digest().encode('base64').strip(): one digest per hashed string
Digest(fed) == <<"md5:">> \o fed

\* scholar_id = '/'.join([self.id, scholar_id]), self.id being 'default'
ScholarId(ps, kwargs) ==
    <<"default", "/">> \o (IF ps = {} THEN <<"d">> ELSE Digest(Updates(SortedParams(ps), kwargs)))

\* No Scholar: the collector of a call without scholar, a thread that has
\* constructed none.
NoScholar == <<>>

\* The Gateway serves no call.
GatewayIdle ==
    /\ parameters = {}
    /\ scholars = <<>>
    /\ created = <<>>
    /\ r_pc = [t \in Calls |-> "idle"]
    /\ r_op = [t \in Calls |-> None]
    /\ r_scholar = [t \in Calls |-> FALSE]
    /\ r_kwargs = [t \in Calls |-> <<>>]
    /\ r_id = [t \in Calls |-> <<>>]
    /\ r_new = [t \in Calls |-> NoScholar]
    /\ r_coll = [t \in Calls |-> NoScholar]

(***************************************************************************)
(* SpecMap: apply_mappings and path_data over JSON trees.                  *)
(*                                                                         *)
(* A JSON tree is a value: a scalar [t: "s"], None [t: "none"], a list     *)
(* [t: "l"] or a dict [t: "d"]. Python lists and dicts are objects, and    *)
(* apply_mapping stores the same object under two keys, so the engine is   *)
(* run on a heap: a sequence of objects whose members are scalars or       *)
(* references [t: "ref"] to other objects.                                 *)
(***************************************************************************)
MaxMappings == 2
MaxRuns == 2

Scalar(v) == [t |-> "s", v |-> v]
NoneV == [t |-> "none"]
ListV(l) == [t |-> "l", l |-> l]
DictV(d) == [t |-> "d", d |-> d]
Ref(id) == [t |-> "ref", id |-> id]

\* The iteration order of the keys of a dict (list(md.keys())): a fixed order
\* of all key names, of which a dict's keys are enumerated in turn.
KeyOrder == <<"a", "b", "c", "n", "u", "$container", "p", "q">>

Keys(d) == SelectSeq(KeyOrder, LAMBDA k : k \in DOMAIN d)

\* d[k] = v
Put(d, k, v) == [x \in (DOMAIN d) \cup {k} |-> IF x = k THEN v ELSE d[x]]

IsObj(h, r, t) == r.t = "ref" /\ h[r.id].t = t

\* isinstance(x, list) / isinstance(x, dict)
IsList(h, r) == IsObj(h, r, "l")
IsDict(h, r) == IsObj(h, r, "d")

RECURSIVE Alloc(_, _), AllocList(_, _, _), AllocDict(_, _, _, _)

\* The heap and reference of v once its objects are laid out on heap h.
Alloc(h, v) ==
    CASE v.t = "l" -> AllocList(h, v.l, <<>>)
      [] v.t = "d" -> AllocDict(h, v.d, Keys(v.d), <<>>)
      [] OTHER -> <<h, v>>

AllocList(h, vs, refs) ==
    IF vs = <<>> THEN <<Append(h, [t |-> "l", l |-> refs]), Ref(Len(h) + 1)>>
    ELSE LET a == Alloc(h, Head(vs))
         IN  AllocList(a[1], Tail(vs), Append(refs, a[2]))

AllocDict(h, d, ks, refs) ==
    IF ks = <<>>
      THEN <<Append(h, [t |-> "d", d |-> [k \in DOMAIN d |-> refs[CHOOSE j \in 1..Len(refs) : Keys(d)[j] = k]]]),
             Ref(Len(h) + 1)>>
    ELSE LET a == Alloc(h, d[Head(ks)])
         IN  AllocDict(a[1], d, Tail(ks), Append(refs, a[2]))

RECURSIVE Deref(_, _)
\* The value a reference stands for (what == compares and what is returned).
\* A transform's callable is equal only to itself.
Deref(h, r) ==
    IF r.t # "ref" THEN r
    ELSE CASE h[r.id].t = "l" -> ListV([j \in 1..Len(h[r.id].l) |-> Deref(h, h[r.id].l[j])])
           [] h[r.id].t = "d" -> DictV([k \in DOMAIN h[r.id].d |-> Deref(h, h[r.id].d[k])])
           [] OTHER -> [t |-> "tf", id |-> r.id]

\* md[k] = v on the dict object id
SetItem(h, id, k, v) == [h EXCEPT ![id].d = Put(h[id].d, k, v)]

\* mapped_v not in md[mapped_k]
NotIn(h, v, lst) == \A j \in 1..Len(h[lst.id].l) : Deref(h, h[lst.id].l[j]) # Deref(h, v)

\* mapped_v = mapped_v[:1] (a new list) when the mapping limits a list value
Limited(h, v, m) ==
    IF IsList(h, v) /\ m.limit
      THEN <<Append(h, [t |-> "l", l |-> SubSeq(h[v.id].l, 1, IF Len(h[v.id].l) > 0 THEN 1 ELSE 0)]),
             Ref(Len(h) + 1)>>
      ELSE <<h, v>>

\* mapped_v = mapping.transform.attach(md[k]): a callable bound to md[k]
Transformed(h, v, orig, m) ==
    IF m.transform
      THEN <<Append(h, [t |-> "tf", of |-> orig]), Ref(Len(h) + 1)>>
      ELSE <<h, v>>

\* if mapped_k not in md: ... elif md[mapped_k] != mapped_v: ... append
WriteMapped(h, id, p, v) ==
    IF p \notin DOMAIN h[id].d THEN SetItem(h, id, p, v)
    ELSE IF Deref(h, h[id].d[p]) = Deref(h, v) THEN h
    ELSE LET h1 == IF IsList(h, h[id].d[p]) THEN h
                   ELSE SetItem(Append(h, [t |-> "l", l |-> <<h[id].d[p]>>]),
                                id, p, Ref(Len(h) + 1))
             lst == h1[id].d[p]
         IN  IF NotIn(h1, v, lst)
               THEN [h1 EXCEPT ![lst.id].l = Append(@, v)]
               ELSE h1

RECURSIVE ApplyMapping(_, _, _), ApplyKeys(_, _, _, _), ApplyElems(_, _, _, _)

\* apply_mapping(md, mapping, p_n3): the heap after the call
ApplyMapping(h, md, m) ==
    IF IsDict(h, md) THEN ApplyKeys(h, md.id, Keys(h[md.id].d), m)
    ELSE IF IsList(h, md) THEN ApplyElems(h, md.id, 1, m)
    ELSE h

\* for k in data_keys: ... apply_mapping(md[next_k], mapping, p_n3)
ApplyKeys(h, id, ks, m) ==
    IF ks = <<>> THEN h
    ELSE LET k == Head(ks)
         IN  IF k # m.key
               THEN ApplyKeys(ApplyMapping(h, h[id].d[k], m), id, Tail(ks), m)
             ELSE IF h[id].d[k].t = "none"
               THEN ApplyKeys(h, id, Tail(ks), m)
             ELSE LET a == Limited(h, h[id].d[k], m)
                      b == Transformed(a[1], a[2], h[id].d[k], m)
                      w == WriteMapped(b[1], id, m.predicate, b[2])
                  IN  ApplyKeys(ApplyMapping(w, w[id].d[m.predicate], m), id, Tail(ks), m)

\* [apply_mapping(elm, mapping, p_n3) for elm in md]
ApplyElems(h, id, j, m) ==
    IF j > Len(h[id].l) THEN h
    ELSE ApplyElems(ApplyMapping(h, h[id].l[j], m), id, j + 1, m)

\* jsonpath_expr.find(data), as references, for the paths of the model:
\* "$.n" (the field n of a dict), "$[*].n" (the field n of every element of a
\* list; a dict counts as a list of itself).
Find(h, path, data) ==
    LET field(r) == IF IsDict(h, r) /\ "n" \in DOMAIN h[r.id].d THEN <<h[r.id].d["n"]>> ELSE <<>>
        RECURSIVE each(_)
        each(rs) == IF rs = <<>> THEN <<>> ELSE field(Head(rs)) \o each(Tail(rs))
    IN  CASE path = "$.n" -> field(data)
          [] path = "$[*].n" -> IF IsList(h, data) THEN each(h[data.id].l)
                                ELSE IF IsDict(h, data) THEN field(data)
                                ELSE <<>>
          [] OTHER -> <<>>

\* path_data(path, data): <<heap, p_data>>; parse(path) raises for a path
\* that is no JSONPath and data is returned.
PathData(h, path, data) ==
    LET found == Find(h, path, data)
    IN  IF path \notin {"$.n", "$[*].n"} \/ found = <<>> THEN <<h, data>>
        ELSE IF Len(found) = 1 THEN <<h, found[1]>>
        ELSE <<Append(h, [t |-> "l", l |-> found]), Ref(Len(h) + 1)>>

RECURSIVE Update(_, _, _, _)
\* data.update(other): the keys ks of the dict object other copied into id
Update(h, id, other, ks) ==
    IF ks = <<>> THEN h
    ELSE Update(SetItem(h, id, Head(ks), h[other].d[Head(ks)]), id, other, Tail(ks))

\* if m.path is not None: ... the narrowing of one mapping: <<heap, data>>
Narrow(h, data, m) ==
    IF m.path = None THEN <<h, data>>
    ELSE LET pd == PathData(h, m.path, data)
             h1 == pd[1]
             p_data == pd[2]
         IN  IF IsList(h1, data) THEN <<h1, p_data>>
             ELSE IF IsDict(h1, data)
               THEN IF IsList(h1, p_data) THEN <<SetItem(h1, data.id, m.key, p_data), data>>
                    ELSE IF IsDict(h1, p_data)
                      THEN <<Update(h1, data.id, p_data.id, Keys(h1[p_data.id].d)), data>>
                    ELSE <<SetItem(h1, data.id, m.key, p_data), data>>
             ELSE <<h1, data>>

RECURSIVE MapAll(_, _, _)
\* for m in mappings: ... apply_mapping(data, m, p_n3): <<heap, data>>
MapAll(h, data, ms) ==
    IF ms = <<>> THEN <<h, data>>
    ELSE LET n == Narrow(h, data, Head(ms))
         IN  MapAll(ApplyMapping(n[1], n[2], Head(ms)), n[2], Tail(ms))

\* container = any(filter(lambda x: x.key == '$container', mappings))
HasContainer(ms) == \E j \in 1..Len(ms) : ms[j].key = "$container"

\* apply_mappings(data, mappings, ns): <<heap, data>> as returned
ApplyMappings(h, data, ms) ==
    IF HasContainer(ms) /\ ~IsDict(h, data)
      THEN MapAll(Append(h, [t |-> "d", d |-> [k \in {"$container"} |-> data]]),
                  Ref(Len(h) + 1), ms)
      ELSE MapAll(h, data, ms)

\* A mapping of a Thing Description: key, predicate (as p_n3), path, limit
\* and whether it has a transform.
Mapping(key, predicate, path, limit, transform) ==
    [key |-> key, predicate |-> predicate, path |-> path, limit |-> limit,
     transform |-> transform]

\* The mappings the sets are drawn from: plain, limited and transformed
\* renamings of the fields a and b, path-narrowed ones (a parsable path into
\* a dict, one into the elements of a list, one that does not parse), the
\* $container mapping, and a mapping whose key occurs in no tree.
MappingChoices ==
    {Mapping("a", "p", None, FALSE, FALSE), Mapping("a", "p", None, TRUE, FALSE),
     Mapping("a", "p", None, FALSE, TRUE), Mapping("b", "p", None, FALSE, FALSE),
     Mapping("b", "p", None, TRUE, FALSE), Mapping("b", "q", None, FALSE, FALSE),
     Mapping("a", "p", "$.n", FALSE, FALSE), Mapping("a", "p", "$[*].n", FALSE, FALSE),
     Mapping("a", "p", "$$", FALSE, FALSE), Mapping("$container", "q", None, FALSE, FALSE),
     Mapping("n", "q", "$[*].n", FALSE, FALSE), Mapping("c", "p", "$.n", FALSE, FALSE),
     Mapping("c", "p", None, FALSE, FALSE)}

MappingSets == UNION {[1..k -> MappingChoices] : k \in 1..MaxMappings}

\* The values of the fields a and b of a flat response.
Leaves ==
    {Scalar(1), Scalar(2), NoneV, ListV(<<Scalar(1), Scalar(2)>>),
     ListV(<<Scalar(2), Scalar(3)>>), ListV(<<Scalar(1), Scalar(1)>>)}

\* A dict from the optional fields given as <<key, values>> pairs.
Dicts(a, b, u) ==
    {DictV([k \in (IF x = <<>> THEN {} ELSE {"a"}) \cup (IF y = <<>> THEN {} ELSE {"b"})
                    \cup (IF z = <<>> THEN {} ELSE {"u"}) |->
                CASE k = "a" -> x[1] [] k = "b" -> y[1] [] OTHER -> z[1]]) :
        x \in {<<>>} \cup {<<v>> : v \in a},
        y \in {<<>>} \cup {<<v>> : v \in b},
        z \in {<<>>} \cup {<<v>> : v \in u}}

\* Flat responses: fields a and b with any leaf, and an unmapped field u.
FlatTrees == Dicts(Leaves, Leaves, {Scalar(9)})

\* The nested member n of a response.
Inner == {DictV([k \in {"a"} |-> Scalar(1)]),
          DictV([k \in {"a", "u"} |-> IF k = "a" THEN Scalar(1) ELSE Scalar(7)]),
          DictV([k \in {"u"} |-> Scalar(7)]),
          ListV(<<Scalar(1), Scalar(2)>>)}

\* Responses with a nested member n beside the fields a and u.
NestedTrees ==
    {DictV([k \in (DOMAIN f.d) \cup {"n"} |-> IF k = "n" THEN i ELSE f.d[k]]) :
        f \in Dicts({Scalar(2)}, {}, {Scalar(9)}), i \in Inner}

\* The elements of a response that is a list.
Elements ==
    {DictV([k \in {"a", "u"} |-> IF k = "a" THEN Scalar(1) ELSE Scalar(9)]),
     DictV([k \in {"n", "u"} |-> IF k = "n" THEN DictV([j \in {"a"} |-> Scalar(1)])
                                 ELSE Scalar(9)]),
     Scalar(1)}

\* Responses that are a list of one or two elements.
ListTrees == {ListV(<<x>>) : x \in Elements} \cup {ListV(<<x, y>>) : x, y \in Elements}

\* response.json(): the trees apply_mappings is run on.
Trees == FlatTrees \cup NestedTrees \cup ListTrees

\* apply_mappings has not been run.
MapIdle ==
    /\ m_in = NoneV
    /\ m_maps = <<>>
    /\ m_heap = <<>>
    /\ m_data = NoneV
    /\ m_out = NoneV
    /\ m_runs = 0

InitMap ==
    /\ eco \in {[base |-> [r \in TDs |-> <<>>], net |-> {}, rdf |-> [r \in TDs |-> <<>>],
                 roots |-> {"R1"}, vars |-> {}]}
    /\ ComposeIdle
    /\ DescribeIdle
    /\ SeedsIdle
    /\ m_in \in Trees
    /\ m_maps \in MappingSets
    /\ m_heap = Alloc(<<>>, m_in)[1]
    /\ m_data = Alloc(<<>>, m_in)[2]
    /\ m_out = m_in
    /\ m_runs = 0
    /\ GatewayIdle

\* mapped_data = apply_mappings(data, e_mappings, self.__ns), on the tree the
\* previous run returned when there was one
RunMappings ==
    /\ m_runs < MaxRuns
    /\ LET r == ApplyMappings(m_heap, m_data, m_maps)
       IN  /\ m_heap' = r[1]
           /\ m_data' = r[2]
           /\ m_out' = Deref(r[1], r[2])
    /\ m_runs' = m_runs + 1
    /\ UNCHANGED <<ecoVars, compVars, descVars, seedVars, gwVars, m_in, m_maps>>

NextMap == RunMappings

SpecMap == InitMap /\ [][NextMap]_vars

(***************************************************************************)
(* SpecGateway: the calls and their steps.                                 *)
(***************************************************************************)
\* Gateway.__init__: self.scholars = {}
InitGateway ==
    /\ eco \in {[base |-> [r \in TDs |-> <<>>], net |-> {}, rdf |-> [r \in TDs |-> <<>>],
                 roots |-> {"R1"}, vars |-> {}]}
    /\ ComposeIdle
    /\ DescribeIdle
    /\ SeedsIdle
    /\ MapIdle
    /\ parameters \in ParameterSets
    /\ scholars = <<>>
    /\ created = <<>>
    /\ r_pc = [t \in Calls |-> "idle"]
    /\ r_op = [t \in Calls |-> None]
    /\ r_scholar = [t \in Calls |-> FALSE]
    /\ r_kwargs = [t \in Calls |-> <<>>]
    /\ r_id = [t \in Calls |-> <<>>]
    /\ r_new = [t \in Calls |-> NoScholar]
    /\ r_coll = [t \in Calls |-> NoScholar]

\* The statements of a call up to the call of _scholar: the interceptor has
\* given the kwargs, the seeds are instantiated;
\* collector = self._scholar(force_seed, **kwargs) if scholar else None
Enter(t, op, scholar, kwargs) ==
    /\ r_pc[t] = "idle"
    /\ r_op' = [r_op EXCEPT ![t] = op]
    /\ r_scholar' = [r_scholar EXCEPT ![t] = scholar]
    /\ r_kwargs' = [r_kwargs EXCEPT ![t] = kwargs]
    /\ r_pc' = [r_pc EXCEPT ![t] = IF scholar THEN "id" ELSE "engine"]
    /\ UNCHANGED <<ecoVars, compVars, descVars, seedVars, mapVars, parameters, scholars,
                   created, r_id, r_new, r_coll>>

\* Gateway.query(query, scholar=scholar, **kwargs)
Query(t, scholar, kwargs) == Enter(t, "query", scholar, kwargs)

\* Gateway.fragment(query, scholar=scholar, **kwargs)
Fragment(t, scholar, kwargs) == Enter(t, "fragment", scholar, kwargs)

\* _scholar: the scholar id from the required parameters
ComputeId(t) ==
    /\ r_pc[t] = "id"
    /\ r_id' = [r_id EXCEPT ![t] = ScholarId(parameters, r_kwargs[t])]
    /\ r_pc' = [r_pc EXCEPT ![t] = "test"]
    /\ UNCHANGED <<ecoVars, compVars, descVars, seedVars, mapVars, parameters, scholars,
                   created, r_op, r_scholar, r_kwargs, r_new, r_coll>>

\* if scholar_id not in self.scholars.keys():
TestMissing(t) ==
    /\ r_pc[t] = "test"
    /\ r_pc' = [r_pc EXCEPT ![t] = IF r_id[t] \notin DOMAIN scholars THEN "construct"
                                   ELSE "fetch"]
    /\ UNCHANGED <<ecoVars, compVars, descVars, seedVars, mapVars, parameters, scholars,
                   created, r_op, r_scholar, r_kwargs, r_id, r_new, r_coll>>

\* scholar = Scholar(..., id=scholar_id, ...): a new instance
Construct(t) ==
    /\ r_pc[t] = "construct"
    /\ created' = Append(created, [id |-> r_id[t], by |-> t])
    /\ r_new' = [r_new EXCEPT ![t] = <<Len(created) + 1>>]
    /\ r_pc' = [r_pc EXCEPT ![t] = "store"]
    /\ UNCHANGED <<ecoVars, compVars, descVars, seedVars, mapVars, parameters, scholars,
                   r_op, r_scholar, r_kwargs, r_id, r_coll>>

\* self.scholars[scholar_id] = scholar
Store(t) ==
    /\ r_pc[t] = "store"
    /\ scholars' = [x \in (DOMAIN scholars) \cup {r_id[t]} |->
                        IF x = r_id[t] THEN r_new[t] ELSE scholars[x]]
    /\ r_pc' = [r_pc EXCEPT ![t] = "fetch"]
    /\ UNCHANGED <<ecoVars, compVars, descVars, seedVars, mapVars, parameters, created,
                   r_op, r_scholar, r_kwargs, r_id, r_new, r_coll>>

\* return self.scholars[scholar_id]
Fetch(t) ==
    /\ r_pc[t] = "fetch"
    /\ r_coll' = [r_coll EXCEPT ![t] = scholars[r_id[t]]]
    /\ r_pc' = [r_pc EXCEPT ![t] = "engine"]
    /\ UNCHANGED <<ecoVars, compVars, descVars, seedVars, mapVars, parameters, scholars,
                   created, r_op, r_scholar, r_kwargs, r_id, r_new>>

\* return self.agora.query(..., collector=collector, ...) or
\* return self.agora.fragment_generator(..., collector=collector, ...)
Answer(t) ==
    /\ r_pc[t] = "engine"
    /\ r_pc' = [r_pc EXCEPT ![t] = "done"]
    /\ UNCHANGED <<ecoVars, compVars, descVars, seedVars, mapVars, parameters, scholars,
                   created, r_op, r_scholar, r_kwargs, r_id, r_new, r_coll>>

NextGateway ==
    \E t \in Calls :
        \/ \E scholar \in BOOLEAN, kwargs \in KwargSets(parameters) : Query(t, scholar, kwargs)
        \/ \E scholar \in BOOLEAN, kwargs \in KwargSets(parameters) : Fragment(t, scholar, kwargs)
        \/ ComputeId(t)
        \/ TestMissing(t)
        \/ Construct(t)
        \/ Store(t)
        \/ Fetch(t)
        \/ Answer(t)

SpecGateway == InitGateway /\ [][NextGateway]_vars

(***************************************************************************)
(* SpecCompose: compose_endpoints on every ecosystem of the bounds.        *)
(***************************************************************************)
EcoCompose ==
    [base : [TDs -> BaseLists(MaxBase, {1})], net : SUBSET Edges,
     rdf : {[r \in TDs |-> <<>>]}, roots : {{"R1"}}, vars : {{}}]

InitCompose ==
    /\ eco \in EcoCompose
    /\ ComposeIdle
    /\ DescribeIdle
    /\ SeedsIdle
    /\ MapIdle
    /\ GatewayIdle

Compose(r) ==
    /\ c_td' = r
    /\ composed' = ComposeEndpoints(r)
    /\ UNCHANGED <<ecoVars, descVars, seedVars, mapVars, gwVars>>

NextCompose == \E r \in TDs : Compose(r)

SpecCompose == InitCompose /\ [][NextCompose]_vars

\* The endpoint ids the ecosystem declares.
EndpointIds == UNION {{<<r, i>> : i \in 1..Len(eco.base[r])} : r \in TDs}

\* A dependency path: a concrete endpoint followed by open endpoints, each of
\* a resource that has the previous one's resource as a predecessor.
IsChain(p) ==
    /\ eco.base[p[1][1]][p[1][2]].href
    /\ \A j \in 2..Len(p) : ~eco.base[p[j][1]][p[j][2]].href
    /\ \A j \in 1..(Len(p) - 1) : <<p[j][1], p[j + 1][1]>> \in eco.net

ChainsTo(r) ==
    {p \in UNION {[1..n -> EndpointIds] : n \in 1..Cardinality(TDs)} :
        IsChain(p) /\ p[Len(p)][1] = r}

\* C10: compose_endpoints(resource) yields, in the declaration order of the
\* resource's base endpoints, the endpoint itself when it has an address and
\* otherwise exactly one composed endpoint per resolved endpoint of every
\* predecessor (recursively): its items are, without repetition, the
\* dependency chains that end in a base endpoint of the resource; an open
\* endpoint with k single-endpoint predecessors yields k items, one with no
\* predecessor yields none.
C10_ComposeYieldsChains ==
    c_td # None =>
        /\ \A j \in 1..Len(composed) : composed[j].path \in ChainsTo(c_td)
        /\ \A p \in ChainsTo(c_td) : \E j \in 1..Len(composed) : composed[j].path = p
        /\ \A j, k \in 1..Len(composed) : composed[j].path = composed[k].path => j = k
        /\ \A j, k \in 1..Len(composed) :
              j < k => composed[j].path[Len(composed[j].path)][2]
                          <= composed[k].path[Len(composed[k].path)][2]
        /\ \A i \in 1..Len(eco.base[c_td]) :
              LET mine == {j \in 1..Len(composed) :
                              composed[j].path[Len(composed[j].path)] = <<c_td, i>>}
                  preds == {p \in TDs : <<p, c_td>> \in eco.net}
              IN  /\ eco.base[c_td][i].href =>
                        \E j \in mine : mine = {j} /\ composed[j] = BaseEndpoint(c_td, i)
                  /\ (~eco.base[c_td][i].href /\ preds = {}) => mine = {}
                  /\ (~eco.base[c_td][i].href
                        /\ \A p \in preds : Len(ComposeEndpoints(p)) = 1)
                       => Cardinality(mine) = Cardinality(preds)

\* An open endpoint with two predecessors has fanned out into two chains.
C10_Witness ==
    /\ c_td = "R3"
    /\ Len(eco.base["R3"]) = 1
    /\ ~eco.base["R3"][1].href
    /\ eco.net = Edges
    /\ Len(composed) >= 2
    /\ \E j \in 1..Len(composed) : Len(composed[j].path) = 3

(***************************************************************************)
(* describe_resource: the data of the Thing Descriptions and the registry. *)
(***************************************************************************)
\* ttl = 100000
DefaultTtl == 100000

\* td.resource.node: the graph-local blank node of a resource (self.__ndict
\* maps exactly these nodes to the resource ids).
\* An RDF term: a blank node, a literal, a URI built by url_for (resource id,
\* b64 segment, query string), an external URI, or a value materialized from
\* the response of the endpoint with the given path.
Term(k, v, b, q, path) == [k |-> k, v |-> v, b |-> b, q |-> q, path |-> path]

BNode(id) == Term("bnode", id, None, None, <<>>)

Node(r) == BNode(r)

Literal(v) == Term("lit", v, None, None, <<>>)

URIRef(u) == Term("ext", u, None, None, <<>>)

IsBNode(t) == t.k = "bnode"

\* o in self.__ndict
InNdict(t) == IsBNode(t) /\ t.v \in TDs

\* td.resource.graph: the static triples of each resource. R1 links to R2,
\* holds the placeholder literal "x" of an instantiation argument, holds a
\* statement about R2's node and one about a local blank node.
ResourceGraph(r) ==
    CASE r = "R1" -> {<<Node("R1"), "wot:name", Literal("one")>>,
                      <<Node("R1"), "wot:link", Node("R2")>>,
                      <<Node("R1"), "wot:value", Literal("x")>>,
                      <<Node("R2"), "wot:name", Literal("two")>>,
                      <<BNode("_:b0"), "wot:unit", Literal("C")>>}
      [] r = "R2" -> {<<Node("R2"), "wot:name", Literal("two")>>,
                      <<Node("R2"), "wot:link", Node("R2")>>}
      [] OTHER    -> {}

\* td.resource.types, in iteration order.
ResourceTypes(r) ==
    CASE r = "R1" -> <<"wot:T1">>
      [] r = "R2" -> <<"wot:T1", "wot:T2">>
      [] OTHER    -> <<"wot:T3">>

\* self.__fountain.get_type(t_n3)
GetType(t) ==
    CASE t = "wot:T1" -> [properties |-> {"wot:name", "wot:value"}, super |-> {"wot:S1"}]
      [] t = "wot:T2" -> [properties |-> {"wot:link"}, super |-> {"wot:S1", "wot:S2"}]
      [] OTHER        -> [properties |-> {}, super |-> {}]

\* The graph same_as_g.load(source=uri) reads for a same-as source: a
\* statement of a declared property about the source, one of an undeclared
\* property, one about another named subject and one about a blank node.
SameAsGraph(uri) ==
    {<<URIRef(uri), "wot:name", Literal("ext")>>,
     <<URIRef(uri), "wot:other", Literal("ext")>>,
     <<URIRef("http://elsewhere"), "wot:name", Literal("ext")>>,
     <<BNode("_:s0"), "wot:name", Literal("ext")>>}

\* encode_rdict(kwargs): the base64 blob of an argument dictionary.
EncodeRdict(kwargs) ==
    CASE kwargs = "x=1" -> "eydOJzoxfQ=="
      [] kwargs = "x=2" -> "eydOJzoyfQ=="
      [] OTHER -> "e30="

\* Proxy.url_for(tid, b64, **kwargs) for a resource id (describe_resource
\* and instantiate_seed never pass it a blank node).
UrlFor(tid, b64, kwargs) ==
    LET b == IF b64 = None /\ kwargs # None THEN EncodeRdict(kwargs) ELSE b64
    IN  Term("uri", tid, b, None, <<>>)

\* b64.replace('%3D', '=')
Unescape(b64) ==
    CASE b64 = "eydOJzoxfQ%3D%3D" -> "eydOJzoxfQ=="
      [] OTHER -> b64

\* Whether eval(base64.b64decode(b64)) returns (it raises otherwise).
Decodes(b64) == b64 = "eydOJzoxfQ=="

\* eval(base64.b64decode(b64)): the argument dictionary.
EvalB64(b64) == [x |-> "1"]

\* The b64 path segments of a request: absent, a well-formed blob with its
\* padding escaped, and a segment that does not decode.
B64Inputs == {None, "eydOJzoxfQ%3D%3D", "%%%"}

\* The query parameters of a request.
KwInputs == {None, "k=v"}

\* The ids a request may name: the resources and an id of no resource.
TidInputs == TDs \cup {"R9"}

\* The freshness hints extract_ttl(response.headers) yields: no hint (None,
\* written <<>>), or <<seconds>>: 0, a lifetime below the default, one above it.
NoHint == <<>>
Hints == {NoHint, <<0>>, <<60>>, <<200000>>}

\* What the upstream answers to one invocation.
\*   invoke_raises: e.invoke raises (no response)
\*   status_other : a response whose status_code is not 200
\*   json_raises  : status 200, response.json() raises
\*   ld_raises    : status 200, ld_triples raises after adding a first triple
\*   ok           : status 200, the body is mapped, enriched and materialized
Answers ==
    [kind : {"invoke_raises"}, status : {0}, hint : {NoHint}]
      \cup [kind : {"status_other"}, status : {404}, hint : {NoHint, <<30>>}]
      \cup [kind : {"json_raises", "ld_raises"}, status : {200}, hint : {<<60>>}]
      \cup [kind : {"ok"}, status : {200}, hint : Hints]

(***************************************************************************)
(* describe_resource: the steps of the method.                             *)
(***************************************************************************)
\* A plausible slip: every response is processed, whatever its status.
AnyStatus(status) == TRUE

\* response.status_code == 200
StatusOk(status) == status = 200

Min(a, b) == IF a <= b THEN a ELSE b

\* ttl = min(ttl, extract_ttl(response.headers) or ttl)
NextTtl(t, hint) == Min(t, IF hint = NoHint \/ hint[1] = 0 THEN t ELSE hint[1])

\* A plausible slip: the composed endpoints in the order they were yielded.
Unsorted(es) == es

RECURSIVE InsertByOrder(_, _)
\* e inserted after the last element whose order is not above e's.
InsertByOrder(es, e) ==
    IF es = <<>> THEN <<e>>
    ELSE IF es[Len(es)].order <= e.order THEN Append(es, e)
    ELSE Append(InsertByOrder(SubSeq(es, 1, Len(es) - 1), e), es[Len(es)])

RECURSIVE SortedByOrder(_)
\* sorted(..., key=lambda x: x.order): stable
SortedByOrder(es) ==
    IF es = <<>> THEN <<>>
    ELSE InsertByOrder(SortedByOrder(SubSeq(es, 1, Len(es) - 1)), es[Len(es)])

\* The triples the pipeline (apply_mappings, enrich, ld_triples) adds to g for
\* the response of endpoint e: statements about the subject r_uri.
ResponseTriples(e, uri) ==
    {<<uri, "wot:value", Term("resp", "first", None, None, e.path)>>,
     <<uri, "wot:value", Term("resp", "second", None, None, e.path)>>}

\* What ld_triples has added when it raises at its second statement.
PartialTriples(e, uri) == {<<uri, "wot:value", Term("resp", "first", None, None, e.path)>>}

\* A plausible slip: the statements about other resources' nodes are kept.
StaticTriplesKeepAll(tid, uri, b64, args) ==
    LET obj(o) == IF InNdict(o) THEN UrlFor(o.v, b64, None)
                  ELSE IF o.k = "lit" /\ o.v \in DOMAIN args THEN Literal(args[o.v])
                  ELSE o
        subj(s) == IF s = Node(tid) THEN uri ELSE s
    IN  {<<subj(t[1]), t[2], obj(t[3])>> : t \in ResourceGraph(tid)}

\* for s, p, o in td.resource.graph: ... g.add((s, p, o))
StaticTriples(tid, uri, b64, args) ==
    LET obj(o) == IF InNdict(o) THEN UrlFor(o.v, b64, None)
                  ELSE IF o.k = "lit" /\ o.v \in DOMAIN args THEN Literal(args[o.v])
                  ELSE o
        subj(s) == IF s = Node(tid) THEN uri ELSE s
    IN  {<<subj(t[1]), t[2], obj(t[3])>> : t \in {u \in ResourceGraph(tid) : ~InNdict(subj(u[1]))}}

\* The types whose lookup has returned when the loop over td.resource.types
\* has done n rounds.
TypesDone(tid, n) == {ResourceTypes(tid)[j] : j \in 1..n}

\* g.add((r_uri, RDF.type, extend_uri(st, prefixes))) for the first n types
TypeTriples(tid, uri, n) ==
    {<<uri, "rdf:type", URIRef(st)>> : st \in UNION {GetType(t).super : t \in TypesDone(tid, n)}}

\* The statements of a fetched same-as graph that are merged into g.
SameAsTriples(src, uri, props) ==
    LET kept == {t \in SameAsGraph(src) :
                    t[2] \in props /\ (t[1] = URIRef(src) \/ IsBNode(t[1]))}
    IN  {<<IF t[1] = URIRef(src) THEN uri ELSE t[1], t[2], t[3]>> : t \in kept}

\* if td.rdf_sources / if td.base
Declares(xs) == xs # <<>>

\* if td.base
HasBase(xs) == Declares(xs)

\* describe_resource(tid, b64, **kwargs): td = self.__rdict[tid] raises
\* KeyError for an id of no resource, outside the try block.
Request(tid, b64, kw) ==
    /\ d_pc \in {"idle", "done", "raised"}
    /\ d_tid' = tid
    /\ d_b64' = b64
    /\ d_kw' = kw
    /\ d_pc' = IF tid \in TDs THEN "args" ELSE "raised"
    /\ g' = {}
    /\ ttl' = IF tid \in TDs THEN DefaultTtl ELSE 0
    /\ d_args' = <<>>
    /\ d_uri' = None
    /\ d_props' = {}
    /\ d_queue' = <<>>
    /\ d_calls' = <<>>
    /\ d_loads' = <<>>
    /\ d_err' = None
    /\ UNCHANGED <<ecoVars, compVars, seedVars, mapVars, gwVars>>

\* if b64 is not None: ... eval(base64.b64decode(b64)); r_uri = ...
DecodeArgs ==
    /\ d_pc = "args"
    /\ LET b == IF d_b64 = None THEN None ELSE Unescape(d_b64)
           a == IF b = None THEN <<>> ELSE EvalB64(b)
           u == UrlFor(d_tid, b, None)
       IN  IF b # None /\ ~Decodes(b)
             THEN /\ d_pc' = "except"
                  /\ d_err' = "args"
                  /\ UNCHANGED <<d_b64, d_args, d_uri>>
             ELSE /\ d_pc' = "static"
                  /\ d_b64' = b
                  /\ d_args' = a
                  /\ d_uri' = IF d_kw = None THEN u ELSE Term("uri", u.v, u.b, d_kw, <<>>)
                  /\ UNCHANGED d_err
    /\ UNCHANGED <<ecoVars, compVars, seedVars, mapVars, gwVars, d_tid, d_kw, g, ttl, d_props, d_queue, d_calls, d_loads>>

\* for s, p, o in td.resource.graph: ...
CopyStatic ==
    /\ d_pc = "static"
    /\ g' = g \cup StaticTriples(d_tid, d_uri, d_b64, d_args)
    /\ d_pc' = "types"
    /\ UNCHANGED <<ecoVars, compVars, seedVars, mapVars, gwVars, d_tid, d_b64, d_kw, d_args, d_uri, ttl, d_props,
                   d_queue, d_calls, d_loads, d_err>>

\* for t in td.resource.types: ... the registry answers the first n lookups
\* and, when n is not all of them, raises at the next.
ExpandTypes(n) ==
    /\ d_pc = "types"
    /\ n \in 0..Len(ResourceTypes(d_tid))
    /\ d_props' = UNION {GetType(t).properties : t \in TypesDone(d_tid, n)}
    /\ g' = g \cup TypeTriples(d_tid, d_uri, n)
    /\ IF n = Len(ResourceTypes(d_tid))
         THEN d_pc' = "sameas" /\ UNCHANGED d_err
         ELSE d_pc' = "except" /\ d_err' = "types"
    /\ UNCHANGED <<ecoVars, compVars, seedVars, mapVars, gwVars, d_tid, d_b64, d_kw, d_args, d_uri, ttl, d_queue,
                   d_calls, d_loads>>

\* if td.rdf_sources: for e in td.rdf_sources: ... one round of the loop;
\* same_as_g.load either reads the source's graph or raises.
SameAs(loaded) ==
    /\ d_pc = "sameas"
    /\ Declares(eco.rdf[d_tid])
    /\ Len(d_loads) < Len(eco.rdf[d_tid])
    /\ LET src == eco.rdf[d_tid][Len(d_loads) + 1]
       IN  /\ d_loads' = Append(d_loads, src)
           /\ g' = g \cup {<<d_uri, "owl:sameAs", URIRef(src)>>}
                     \cup (IF loaded THEN SameAsTriples(src, d_uri, d_props) ELSE {})
           /\ IF loaded
                THEN UNCHANGED <<d_pc, d_err>>
                ELSE d_pc' = "except" /\ d_err' = "sameas"
    /\ UNCHANGED <<ecoVars, compVars, seedVars, mapVars, gwVars, d_tid, d_b64, d_kw, d_args, d_uri, ttl, d_props,
                   d_queue, d_calls>>

\* if td.base: for e in sorted(self.compose_endpoints(td), key=...): the
\* generator is consumed and sorted before the first invocation.
SortEndpoints ==
    /\ d_pc = "sameas"
    /\ Len(d_loads) = Len(eco.rdf[d_tid])
    /\ d_queue' = IF HasBase(eco.base[d_tid])
                    THEN SortedByOrder(ComposeEndpoints(d_tid))
                    ELSE <<>>
    /\ d_pc' = "loop"
    /\ UNCHANGED <<ecoVars, compVars, seedVars, mapVars, gwVars, d_tid, d_b64, d_kw, d_args, d_uri, g, ttl, d_props,
                   d_calls, d_loads, d_err>>

\* One round of the endpoint loop: e.invoke(...), and for status 200 the
\* body's mapping, enrichment, materialization and the ttl update.
Invoke(a) ==
    /\ d_pc = "loop"
    /\ d_queue # <<>>
    /\ LET e == Head(d_queue)
       IN  /\ d_calls' = Append(d_calls, [e |-> e, kind |-> a.kind, hint |-> a.hint])
           /\ d_queue' = Tail(d_queue)
           /\ CASE a.kind = "invoke_raises" ->
                     /\ d_pc' = "except" /\ d_err' = "endpoint"
                     /\ UNCHANGED <<g, ttl>>
                [] a.kind # "invoke_raises" /\ ~StatusOk(a.status) ->
                     UNCHANGED <<g, ttl, d_pc, d_err>>
                [] a.kind = "json_raises" /\ StatusOk(a.status) ->
                     /\ d_pc' = "except" /\ d_err' = "endpoint"
                     /\ UNCHANGED <<g, ttl>>
                [] a.kind = "ld_raises" /\ StatusOk(a.status) ->
                     /\ d_pc' = "except" /\ d_err' = "endpoint"
                     /\ g' = g \cup PartialTriples(e, d_uri)
                     /\ UNCHANGED ttl
                [] OTHER ->
                     /\ g' = g \cup ResponseTriples(e, d_uri)
                     /\ ttl' = NextTtl(ttl, a.hint)
                     /\ UNCHANGED <<d_pc, d_err>>
    /\ UNCHANGED <<ecoVars, compVars, seedVars, mapVars, gwVars, d_tid, d_b64, d_kw, d_args, d_uri, d_props, d_loads>>

\* except Exception as e: print e.message; traceback.print_exc()
Except ==
    /\ d_pc = "except"
    /\ d_pc' = "done"
    /\ UNCHANGED <<ecoVars, compVars, seedVars, mapVars, gwVars, d_tid, d_b64, d_kw, d_args, d_uri, g, ttl, d_props,
                   d_queue, d_calls, d_loads, d_err>>

\* return g, {'Cache-Control': 'max-age={}'.format(ttl)}
Return ==
    /\ d_pc = "loop"
    /\ d_queue = <<>>
    /\ d_pc' = "done"
    /\ UNCHANGED <<ecoVars, compVars, seedVars, mapVars, gwVars, d_tid, d_b64, d_kw, d_args, d_uri, g, ttl, d_props,
                   d_queue, d_calls, d_loads, d_err>>

\* Declared endpoints: href and order.
Concrete(n) == [href |-> TRUE, order |-> n]
Open(n) == [href |-> FALSE, order |-> n]

\* The ecosystems describe_resource is run on: R1 with no endpoint or with two
\* addressed endpoints declared against their priority; R2 with none, an open
\* one, or an open and an addressed one; R3 with one open endpoint; R1 with or
\* without same-as sources; the networks none, R1->R2, R1->R3<-R2, R1->R2->R3.
EcoDescribe ==
    [base : [R1 : {<<>>, <<Concrete(2), Concrete(1)>>},
             R2 : {<<>>, <<Open(1)>>, <<Open(2), Concrete(1)>>},
             R3 : {<<Open(1)>>}],
     net  : {{}, {<<"R1", "R2">>}, {<<"R1", "R3">>, <<"R2", "R3">>},
             {<<"R1", "R2">>, <<"R2", "R3">>}},
     rdf  : [R1 : {<<>>, <<"http://s1", "http://s2">>}, R2 : {<<>>}, R3 : {<<>>}],
     roots : {{"R1"}}, vars : {{}}]

Init ==
    /\ eco \in EcoDescribe
    /\ ComposeIdle
    /\ DescribeIdle
    /\ SeedsIdle
    /\ MapIdle
    /\ GatewayIdle

Next ==
    \/ \E tid \in TidInputs, b64 \in B64Inputs, kw \in KwInputs : Request(tid, b64, kw)
    \/ DecodeArgs
    \/ CopyStatic
    \/ \E n \in 0..2 : ExpandTypes(n)
    \/ \E loaded \in BOOLEAN : SameAs(loaded)
    \/ SortEndpoints
    \/ \E a \in Answers : Invoke(a)
    \/ Except
    \/ Return

Spec == Init /\ [][Next]_vars

(***************************************************************************)
(* Claims about describe_resource (checked under Spec).                    *)
(***************************************************************************)
\* The composed endpoints of the resource of the request in progress.
Composed == {ComposeEndpoints(d_tid)[j] : j \in 1..Len(ComposeEndpoints(d_tid))}

\* The triples of g that were materialized from the response of endpoint e.
FromResponse(e) == {t \in g : t[3].k = "resp" /\ t[3].path = e.path}

\* C1: the composed endpoints are invoked one at a time in non-decreasing
\* order of priority: when an endpoint is invoked, every composed endpoint of
\* a lower order has been invoked before it, and the triples of each earlier
\* successful response are already merged into the graph.
C1_InvokedInPriorityOrder ==
    \A j \in 1..Len(d_calls) :
        /\ \A i \in 1..(j - 1) : d_calls[i].e.order <= d_calls[j].e.order
        /\ \A e \in Composed :
              e.order < d_calls[j].e.order => \E i \in 1..(j - 1) : d_calls[i].e = e
        /\ \A i \in 1..(j - 1) :
              d_calls[i].kind = "ok" => ResponseTriples(d_calls[i].e, d_uri) \subseteq g

\* Both endpoints of R1 were invoked, the one declared second (order 1) first.
C1_Witness ==
    /\ d_tid = "R1"
    /\ Len(d_calls) = 2
    /\ d_calls[1].e.path = <<(<<"R1", 2>>)>>
    /\ d_calls[1].e.order < d_calls[2].e.order

\* The request's resource has two composed endpoints and the first invoked
\* one answered with a non-success status.
FirstOfTwoFailed ==
    /\ d_tid \in TDs
    /\ Len(d_calls) >= 1
    /\ Len(ComposeEndpoints(d_tid)) = 2
    /\ d_calls[1].kind = "status_other"

\* C2: with two endpoints, the first answering a non-success status and the
\* second succeeding, the second is still invoked, its triples are in the
\* returned graph, no triple comes from the first response, and the returned
\* lifetime comes from the second response's hint alone (the hint itself when
\* it is a positive lifetime below the default, never one of the first's).
C2_SecondEndpointStillServes ==
    (FirstOfTwoFailed /\ d_pc = "done") =>
        /\ Len(d_calls) = 2
        /\ FromResponse(d_calls[1].e) = {}
        /\ (d_calls[2].kind = "ok") =>
              /\ ResponseTriples(d_calls[2].e, d_uri) \subseteq g
              /\ ttl \in {DefaultTtl} \cup {d_calls[2].hint[j] : j \in 1..Len(d_calls[2].hint)}
              /\ ttl <= DefaultTtl
              /\ (d_calls[2].hint = <<60>>) => (ttl = 60)

\* The first endpoint answered 404 with a hint of 30, the second 200 with 60.
C2_Witness ==
    /\ FirstOfTwoFailed
    /\ d_pc = "done"
    /\ Len(d_calls) = 2
    /\ d_calls[1].hint = <<30>>
    /\ d_calls[2].kind = "ok"
    /\ d_calls[2].hint = <<60>>
    /\ ttl = 60

\* C3 as claimed: an endpoint call that raises is skipped, and every composed
\* endpoint after it is still invoked and its successful response merged.
C3_ErrorDoesNotAbortChain ==
    (d_pc = "done" /\ Len(d_calls) >= 1) =>
        /\ Len(d_calls) = Len(ComposeEndpoints(d_tid))
        /\ \A i \in 1..Len(d_calls) :
              d_calls[i].kind = "ok" => ResponseTriples(d_calls[i].e, d_uri) \subseteq g

\* The hints of the successful responses of the request, in seconds.
SuccessfulHints ==
    {d_calls[i].hint[1] : i \in {j \in 1..Len(d_calls) :
                                    d_calls[j].kind = "ok" /\ d_calls[j].hint # NoHint}}

\* C4 as claimed: the returned max-age is the minimum of the hints of the
\* successful responses (0 and hints above the default included), and the
\* default when there was none.
C4_MaxAgeIsMinimumOfHints ==
    (d_pc = "done" /\ d_err = None) =>
        ttl = IF SuccessfulHints = {} THEN DefaultTtl
              ELSE CHOOSE h \in SuccessfulHints : \A k \in SuccessfulHints : h <= k

\* C5 as claimed: an error at any step of a request for a resource is not
\* propagated; the graph accumulated so far is returned with the default
\* lifetime, whatever hints were observed before the error.
C5_ErrorReturnsDefaultLifetime ==
    d_tid \in TDs =>
        /\ d_pc # "raised"
        /\ (d_pc = "done" /\ d_err # None) => ttl = DefaultTtl

\* The graph step 2 and step 3 of the method derive for the resource: its
\* static triples with its own node replaced by its URI, references to other
\* resources replaced by their URIs under the same b64 segment, argument
\* placeholders replaced by the argument, statements about other resources'
\* nodes left out; and one rdf:type triple per supertype of a declared type.
StaticAndTypeGraph ==
    LET own == {t \in ResourceGraph(d_tid) : t[1] = Node(d_tid) \/ ~InNdict(t[1])}
        s(t) == IF t[1] = Node(d_tid) THEN d_uri ELSE t[1]
        o(t) == CASE InNdict(t[3]) -> Term("uri", t[3].v, d_b64, None, <<>>)
                  [] t[3].k = "lit" /\ t[3].v \in DOMAIN d_args -> Literal(d_args[t[3].v])
                  [] OTHER -> t[3]
        types == {ResourceTypes(d_tid)[j] : j \in 1..Len(ResourceTypes(d_tid))}
    IN  {<<s(t), t[2], o(t)>> : t \in own}
          \cup {<<d_uri, "rdf:type", URIRef(st)>> : st \in UNION {GetType(t).super : t \in types}}

\* C6 as claimed: a resource that declares no endpoints gets (when no step
\* raised) exactly its static and type-expansion triples, the default
\* lifetime, and no upstream call or fetch.
C6_NoEndpointsExactlyStatic ==
    (d_pc = "done" /\ d_tid \in TDs /\ eco.base[d_tid] = <<>> /\ d_err = None) =>
        /\ g = StaticAndTypeGraph
        /\ ttl = DefaultTtl
        /\ d_calls = <<>>
        /\ d_loads = <<>>

\* C6, amended: a resource that declares no endpoints is returned with the
\* default lifetime and without any endpoint invocation; when it declares no
\* same-as source either and no step raised, the graph is exactly its static
\* and type-expansion triples and nothing was fetched.
C6_NoEndpointsNoSources ==
    (d_pc = "done" /\ d_tid \in TDs /\ eco.base[d_tid] = <<>>) =>
        /\ ttl = DefaultTtl
        /\ d_calls = <<>>
        /\ (eco.rdf[d_tid] = <<>> /\ d_err = None) =>
              (g = StaticAndTypeGraph /\ d_loads = <<>>)

\* R1 without endpoints or sources was described under instantiation
\* arguments; its link to R2 was rewritten to R2's URI.
C6_Witness ==
    /\ d_pc = "done"
    /\ d_tid = "R1"
    /\ eco.base["R1"] = <<>>
    /\ eco.rdf["R1"] = <<>>
    /\ d_err = None
    /\ d_b64 = "eydOJzoxfQ=="
    /\ <<d_uri, "wot:link", Term("uri", "R2", "eydOJzoxfQ==", None, <<>>)>> \in g
    /\ <<d_uri, "rdf:type", URIRef("wot:S1")>> \in g

(***************************************************************************)
(* SpecSeeds: Proxy.__init__, instantiate_seed, seeds and clear_seeds.     *)
(***************************************************************************)
MaxOps == 3

\* The roots an ecosystem may declare: Thing Descriptions and "N1", a plain
\* resource that is no Thing Description (isinstance(root, TD) is false).
RootIds == {"R1", "R2", "N1"}

\* root.node of a plain resource root.
PlainNode(r) == URIRef(r)

\* t.n3(self.__ns) for the types of a root, as a set.
TypesN3(r) == {ResourceTypes(r)[j] : j \in 1..Len(ResourceTypes(r))}

\* The keyword arguments of an instantiate_seed call: none, or one binding.
SeedKwargs == {None, "x=1", "x=2"}

\* for root in ted.ecosystem.roots: ... self.__seeds.add((uri, t.n3(self.__ns)))
InitSeeds ==
    UNION {IF r \in TDs
             THEN (IF r \in eco.vars THEN {}
                   ELSE {<<UrlFor(r, None, None), t>> : t \in TypesN3(r)})
             ELSE {<<PlainNode(r), t>> : t \in TypesN3(r)} : r \in eco.roots}

\* A plausible slip: the membership test of instantiate_seed dropped.
AnyRoot(root) == TRUE

\* if root in self.__ted.ecosystem.roots
IsRoot(root) == root \in eco.roots

\* Proxy.instantiate_seed(root, **kwargs) for a Thing Description root
InstantiateSeed(root, kwargs) ==
    /\ Len(s_hist) < MaxOps
    /\ s_hist' = Append(s_hist, [op |-> "instantiate_seed", root |-> root, kw |-> kwargs])
    /\ IF IsRoot(root)
         THEN LET uri == UrlFor(root, None, kwargs)
              IN  /\ seeds' = seeds \cup {<<uri, t>> : t \in TypesN3(root)}
                  /\ s_ret' = <<uri>>
         ELSE /\ seeds' = seeds
              /\ s_ret' = <<>>
    /\ UNCHANGED <<ecoVars, compVars, descVars, mapVars, gwVars, type_seeds>>

\* Proxy.clear_seeds()
ClearSeeds ==
    /\ Len(s_hist) < MaxOps
    /\ s_hist' = Append(s_hist, [op |-> "clear_seeds", root |-> None, kw |-> None])
    /\ seeds' = {}
    /\ type_seeds' = type_seeds \ UNION {TypesN3(r) : r \in eco.roots}
    /\ s_ret' = <<>>
    /\ UNCHANGED <<ecoVars, compVars, descVars, mapVars, gwVars>>

\* The ecosystems of the seed registry: any set of roots, any of the Thing
\* Descriptions parameterized (root.vars).
EcoSeeds ==
    [base : {[r \in TDs |-> <<>>]}, net : {{}}, rdf : {[r \in TDs |-> <<>>]},
     roots : SUBSET RootIds, vars : SUBSET {"R1", "R2"}]

InitSeedsSpec ==
    /\ eco \in EcoSeeds
    /\ ComposeIdle
    /\ DescribeIdle
    /\ MapIdle
    /\ GatewayIdle
    /\ seeds = InitSeeds
    /\ type_seeds = {"wot:T1", "wot:T2", "wot:T3"}
    /\ s_hist = <<>>
    /\ s_ret = <<>>

NextSeeds ==
    \/ \E root \in TDs, kwargs \in SeedKwargs : InstantiateSeed(root, kwargs)
    \/ ClearSeeds

SpecSeeds == InitSeedsSpec /\ [][NextSeeds]_vars

\* The position of the last clear_seeds call of the history (0: none).
LastClear ==
    LET cs == {j \in 1..Len(s_hist) : s_hist[j].op = "clear_seeds"}
    IN  IF cs = {} THEN 0 ELSE CHOOSE j \in cs : \A k \in cs : k <= j

\* The URI of root under kwargs: the resource's path, with the encoded
\* arguments as second segment when there are any.
SeedUri(root, kwargs) ==
    Term("uri", root, IF kwargs = None THEN None ELSE EncodeRdict(kwargs), None, <<>>)

\* The pairs the instantiate_seed calls after the last clear_seeds recorded:
\* one per declared type, for calls that named a root.
RecordedSinceClear ==
    UNION {IF s_hist[j].root \in eco.roots
             THEN {<<SeedUri(s_hist[j].root, s_hist[j].kw), t>> : t \in TypesN3(s_hist[j].root)}
             ELSE {} : j \in {k \in (LastClear + 1)..Len(s_hist) :
                                  s_hist[k].op = "instantiate_seed"}}

\* C7: seeds() is the set of pairs recorded for roots since the last
\* clear_seeds (since construction, which records the unparameterized roots,
\* when there was none); instantiate_seed returns the URI for a root and
\* nothing for a non-root, which adds nothing; right after clear_seeds the
\* set is empty. With R1 (type T1) as only root, instantiate_seed(R1) on the
\* new proxy returns U and seeds() is exactly {(U, T1)}.
C7_SeedsAreRecordedRootPairs ==
    /\ seeds = (IF LastClear = 0 THEN InitSeeds ELSE {}) \cup RecordedSinceClear
    /\ \A pr \in seeds : \E r \in eco.roots : pr[2] \in TypesN3(r)
    /\ Len(s_hist) > 0 =>
          LET last == s_hist[Len(s_hist)]
          IN  /\ last.op = "clear_seeds" => seeds = {}
              /\ (last.op = "instantiate_seed" /\ last.root \in eco.roots)
                    => (s_ret = <<SeedUri(last.root, last.kw)>>
                        /\ \A t \in TypesN3(last.root) : <<s_ret[1], t>> \in seeds)
              /\ (last.op = "instantiate_seed" /\ last.root \notin eco.roots)
                    => s_ret = <<>>
    /\ (eco.roots = {"R1"} /\ Len(s_hist) = 1 /\ s_hist[1].op = "instantiate_seed"
          /\ s_hist[1].root = "R1" /\ s_hist[1].kw = None)
         => (s_ret = <<SeedUri("R1", None)>> /\ seeds = {<<SeedUri("R1", None), "wot:T1">>})

\* With R1 as only root: instantiate_seed(R1), then clear_seeds emptied the set.
C7_Witness ==
    /\ eco.roots = {"R1"}
    /\ Len(s_hist) = 2
    /\ s_hist[1] = [op |-> "instantiate_seed", root |-> "R1", kw |-> None]
    /\ s_hist[2].op = "clear_seeds"
    /\ seeds = {}

(***************************************************************************)
(* Claims about the mapping engine (SpecMap).                              *)
(***************************************************************************)

\* The entries a value contributes to a merge: the elements of a list, or
\* the value itself.
Items(v) == IF v.t = "l" THEN {v.l[j] : j \in 1..Len(v.l)} ELSE {v}

\* The value a mapping takes from a field: a list cut to its first element
\* when the mapping limits.
Taken(v, m) == IF v.t = "l" /\ m.limit /\ Len(v.l) > 0 THEN ListV(<<v.l[1]>>) ELSE v

\* The set maps the two different fields a and b, in either order, onto the
\* predicate p, without path or transform, and the response has both.
TwoFieldsOnePredicate ==
    /\ Len(m_maps) = 2
    /\ {m_maps[1].key, m_maps[2].key} = {"a", "b"}
    /\ \A j \in 1..2 : /\ m_maps[j].predicate = "p"
                       /\ m_maps[j].path = None
                       /\ ~m_maps[j].transform
    /\ m_in.t = "d"
    /\ {"a", "b"} \subseteq DOMAIN m_in.d
    /\ m_in.d["a"] # NoneV
    /\ m_in.d["b"] # NoneV

\* The mapping of the set with key k.
MappingOf(k) == m_maps[CHOOSE j \in 1..Len(m_maps) : m_maps[j].key = k]

\* C8: when apply_mappings has mapped two different fields of one dict onto
\* the same predicate, what is stored under the predicate is the deduplicated
\* merge of the two values: its entries are exactly the entries of the two
\* values, which keeps the value written first, and none occurs twice.
C8_MergeIsDeduplicated ==
    (m_runs = 1 /\ TwoFieldsOnePredicate) =>
        /\ "p" \in DOMAIN m_out.d
        /\ LET p == m_out.d["p"]
           IN  /\ Items(p) = Items(Taken(m_in.d["a"], MappingOf("a")))
                               \cup Items(Taken(m_in.d["b"], MappingOf("b")))
               /\ p.t = "l" => Cardinality(Items(p)) = Len(p.l)

\* The keys of the mappings of the set.
MappingKeys == {m_maps[j].key : j \in 1..Len(m_maps)}

RECURSIVE Kept(_, _)
\* Every field of the tree vin whose key is no mapping key is in vout with
\* its value, whose own unmatched fields are kept in turn.
Kept(vin, vout) ==
    CASE vin.t = "d" ->
           /\ vout.t = "d"
           /\ \A k \in (DOMAIN vin.d) \ MappingKeys :
                  k \in DOMAIN vout.d /\ Kept(vin.d[k], vout.d[k])
      [] vin.t = "l" ->
           /\ vout.t = "l"
           /\ Len(vout.l) = Len(vin.l)
           /\ \A j \in 1..Len(vin.l) : Kept(vin.l[j], vout.l[j])
      [] OTHER -> vout = vin

RECURSIVE KeysOf(_)
\* The keys that occur anywhere in a tree.
KeysOf(v) ==
    CASE v.t = "d" -> (DOMAIN v.d) \cup UNION {KeysOf(v.d[k]) : k \in DOMAIN v.d}
      [] v.t = "l" -> UNION {KeysOf(v.l[j]) : j \in 1..Len(v.l)}
      [] OTHER -> {}

\* The tree as apply_mappings first sees it: a response that is no dict goes
\* under the $container key when the set has a $container mapping.
Contained(v) ==
    IF HasContainer(m_maps) /\ v.t # "d" THEN DictV([k \in {"$container"} |-> v]) ELSE v

\* C9: apply_mappings loses no field that no mapping matches: every field of
\* the input whose key is no mapping key is in the returned tree with its
\* value, and a set none of whose keys occurs in the tree returns the tree
\* as it was, on the first run and on the second.
C9_UnmatchedFieldsKept ==
    m_runs >= 1 =>
        /\ Kept(Contained(m_in), m_out)
        /\ (MappingKeys \cap KeysOf(Contained(m_in)) = {}) => m_out = Contained(m_in)

(***************************************************************************)
(* Claims about the Gateway's scholars (SpecGateway).                      *)
(***************************************************************************)

\* The values a call gives to the required parameters.
RequiredValues(t) == [k \in parameters |-> StrGet(r_kwargs[t], k)]

\* The call asked for a scholar and _scholar has returned to it.
Served(t) == r_scholar[t] /\ r_pc[t] \in {"engine", "done"}

\* C11: under any interleaving of concurrent query / fragment calls with
\* scholar=True, at most one Scholar instance is ever created for a scholar
\* id, and the calls that give the same values to the required parameters
\* have received the same instance from _scholar.
C11_OneScholarPerId ==
    /\ \A i, j \in 1..Len(created) : created[i].id = created[j].id => i = j
    /\ \A s, t \in Calls :
           (Served(s) /\ Served(t) /\ RequiredValues(s) = RequiredValues(t))
               => r_coll[s] = r_coll[t]

=============================================================================
